---- MODULE Spec2Model ----
(***************************************************************************)
(* PortfolioML data preparation: portfolioML/model/split.py (period        *)
(* splitting, sequence windowing, LSTM / DNN tensors) and                  *)
(* portfolioML/data/data_returns.py (returns and binary targets).          *)
(*                                                                         *)
(* A behaviour of Spec is one call of one function of split.py: Init draws *)
(* the function and its arguments, the action applies it.  A behaviour of  *)
(* SpecData is one use of data_returns.py: either a caller's get_returns   *)
(* and then binary_targets on what it returned, or one run of the script   *)
(* (get_returns, binary_targets, wavelet_dataframe, binary_targets).       *)
(***************************************************************************)
EXTENDS Integers, Sequences, FiniteSets

VARIABLES
    pc,           \* "call" before the call, then "returned" or "raised"; in
                  \* SpecData "call", "got_returns", "done", "got_wavelet",
                  \* "finished", "exit" (sys.exit) or "raised"
    fn,           \* the function called ("__main__": the data_returns script)
    df_returns,   \* the caller's table of returns (split.py)
    df_binary,    \* the caller's table of binary targets (split.py)
    df_multidim_list,  \* the caller's list of four tables (all_multidata_LSTM)
    args,         \* the scalar arguments of the call
    periods_ret,  \* split_Tperiod: first returned list
    periods_bin,  \* split_Tperiod: second returned list
    X,            \* get_sequences / get_train_set: first returned value
    y,            \* get_sequences / get_train_set: second returned value
    X_train,      \* all_data_LSTM / all_multidata_LSTM / all_data_DNN
    y_train,
    X_test,
    y_test,
    dataframe,          \* data_returns: the price table handed to get_returns
    frames,             \* data_returns: the objects created by get_returns and
                        \* wavelet_dataframe, by identity
    dataframe_ritorni,  \* data_returns: what get_returns returned (an identity)
    dataframe_binary,   \* data_returns: what binary_targets returned (an identity)
    df_returns_pca,     \* data_returns: what wavelet_dataframe returned (an identity)
    df_binary_pca,      \* data_returns: what the second binary_targets returned
    files               \* data_returns: the csv files written, by name

splitVars == <<df_returns, df_binary, df_multidim_list, periods_ret, periods_bin,
               X, y, X_train, y_train, X_test, y_test>>
dataVars == <<dataframe, frames, dataframe_ritorni, dataframe_binary,
              df_returns_pca, df_binary_pca, files>>

vars == <<pc, fn, args, splitVars, dataVars>>

-----------------------------------------------------------------------------
(* Bounds of the explored inputs.                                          *)

MaxLen == 6          \* rows of the small tables and series
MaxLenPeriod == 4    \* len_period of the explicit split_Tperiod calls
MaxLenTest == 3      \* len_test of the explicit split_Tperiod calls
MaxSteps == 3        \* n_steps of the explicit get_sequences calls
MaxSeed == 1         \* the generated tables are numbered 0..MaxSeed
MaxPeriod == 1       \* last study period of the long tables
NCompanies == 2      \* columns of the tables
MaxRows == 3         \* rows of the price tables
MaxCols == 4         \* columns of the price tables
MaxKind == 3         \* the price series of a column is one of kinds 0..MaxKind
MaxM == 2            \* largest period m of get_returns

(* Defaults written in split.py.                                           *)

LenPeriod == 1308
LenTest == 327
NSteps == 240
LenTrainDefault == 981
DenseTailStart == 221
Stride == 20
NFeatures == 31

-----------------------------------------------------------------------------
(* Python helpers: 0-based indexing and slicing of sequences.              *)

Min(a, b) == IF a < b THEN a ELSE b
Max(a, b) == IF a > b THEN a ELSE b

\* s[i] with 0 <= i < len(s)
At(s, i) == s[i + 1]

\* s[a:b] for 0 <= a, 0 <= b (a slice never raises; it is clipped)
Slice(s, a, b) == SubSeq(s, a + 1, Min(b, Len(s)))

\* a list built by a comprehension or a loop, held element by element
List(f) == SubSeq(f, 1, Len(f))

\* list(range(start, stop, step)) for step >= 1
PyRange(start, stop, step) ==
    LET n == IF stop <= start THEN 0 ELSE (stop - start + step - 1) \div step
    IN  List([k \in 1..n |-> start + (k - 1) * step])

\* a table is a sequence of rows, a row a sequence of cells (one per company);
\* df[comp] is the column as a series
Column(df, comp) == List([t \in 1..Len(df) |-> df[t][comp]])

\* the number of columns of a table (tables of the model have >= 1 row
\* whenever their columns are asked for)
NCol(df) == IF Len(df) = 0 THEN 0 ELSE Len(df[1])

-----------------------------------------------------------------------------
(* split_Tperiod                                                           *)

split_Tperiod_dropfirst(ret, bin, len_period, len_test) ==
    LET starts == PyRange(len_test, Len(ret) - len_period + 1, len_test)
    IN  [ret |-> List([k \in 1..Len(starts) |-> Slice(ret, starts[k], len_period + starts[k])]),
         bin |-> List([k \in 1..Len(starts) |-> Slice(bin, starts[k], len_period + starts[k])])]

split_Tperiod_trailing(ret, bin, len_period, len_test) ==
    LET len_total_leave == Len(ret) - len_period
        reg == PyRange(0, len_total_leave + 1, len_test)
        starts == IF len_total_leave >= 0 /\ len_total_leave % len_test # 0
                  THEN Append(reg, len_total_leave) ELSE reg
    IN  [ret |-> List([k \in 1..Len(starts) |-> Slice(ret, starts[k], len_period + starts[k])]),
         bin |-> List([k \in 1..Len(starts) |-> Slice(bin, starts[k], len_period + starts[k])])]

split_Tperiod(ret, bin, len_period, len_test) ==
    LET len_total_leave == Len(ret) - len_period
        starts_ret == PyRange(0, len_total_leave + 1, len_test)
        starts_bin == PyRange(0, len_total_leave + 1, len_test)
    IN  [ret |-> List([k \in 1..Len(starts_ret) |->
                    Slice(ret, starts_ret[k], len_period + starts_ret[k])]),
         bin |-> List([k \in 1..Len(starts_bin) |->
                    Slice(bin, starts_bin[k], len_period + starts_bin[k])])]

-----------------------------------------------------------------------------
(* get_sequences                                                           *)

get_sequences_shifted(returns, targets, n_steps) ==
    [X |-> List([k \in 1..Max(Len(returns) - n_steps, 0) |->
              Slice(returns, k - 1, k - 1 + n_steps)]),
     y |-> List([k \in 1..Max(Len(targets) - n_steps, 0) |->
              At(targets, k - 1 + n_steps - 1)])]

get_sequences(returns, targets, n_steps) ==
    [X |-> List([k \in 1..Max(Len(returns) - n_steps, 0) |->
              Slice(returns, k - 1, k - 1 + n_steps)]),
     y |-> List([k \in 1..Max(Len(targets) - n_steps, 0) |->
              At(targets, k - 1 + n_steps)])]

-----------------------------------------------------------------------------
(* get_train_set: get_sequences per company with the default n_steps, the   *)
(* per-company lists stacked by np.array and flattened by np.reshape.  The  *)
(* reshape reads shape[2] of the stacked array: with no company, or with no *)
(* sequence per company, the array has fewer axes and the read raises.      *)
(* (The type test of lines 106-109 compares str(type(x)) with a string it   *)
(* never equals; both tables are wrapped in a DataFrame of the same cells.) *)

Raised == [ok |-> FALSE]

get_train_set_interleaved(df_returns1, df_binary1) ==
    LET C == NCol(df_returns1)
        N == Len(df_returns1) - NSteps
        seqs == List([comp \in 1..C |->
                   get_sequences(Column(df_returns1, comp), Column(df_binary1, comp), NSteps)])
    IN  IF C = 0 \/ N <= 0 THEN Raised
        ELSE [ok |-> TRUE,
              X |-> List([j \in 1..(C * N) |-> seqs[((j - 1) % C) + 1].X[((j - 1) \div C) + 1]]),
              y |-> List([j \in 1..(C * N) |-> seqs[((j - 1) % C) + 1].y[((j - 1) \div C) + 1]])]

get_train_set(df_returns1, df_binary1) ==
    LET C == NCol(df_returns1)
        N == Len(df_returns1) - NSteps
        list_tot == List([comp \in 1..C |->
                       get_sequences(Column(df_returns1, comp), Column(df_binary1, comp), NSteps)])
    IN  IF C = 0 \/ N <= 0 THEN Raised
        ELSE [ok |-> TRUE,
              X |-> List([j \in 1..(C * N) |-> list_tot[((j - 1) \div N) + 1].X[((j - 1) % N) + 1]]),
              y |-> List([j \in 1..(C * N) |-> list_tot[((j - 1) \div N) + 1].y[((j - 1) % N) + 1]])]

-----------------------------------------------------------------------------
(* StandardScaler().fit_transform (scikit-learn): per column, subtract the  *)
(* mean and divide by the population standard deviation of the rows given.  *)
(* With n rows, sum s and sum of squares q the scaled value of x is         *)
(*     (n*x - s) / sqrt(n*q - s*s)                                          *)
(* kept exactly as the pair num, den2 (a constant column has num = 0 and    *)
(* den2 = 0 and scales to 0).  Fitting no row raises.                       *)

RECURSIVE SumRange(_, _, _)
SumRange(f, lo, hi) ==
    IF lo > hi THEN 0
    ELSE IF lo = hi THEN f[lo]
    ELSE LET mid == (lo + hi) \div 2
         IN  SumRange(f, lo, mid) + SumRange(f, mid + 1, hi)

Squares(col) == List([t \in 1..Len(col) |-> col[t] * col[t]])

fit_transform(seg) ==
    LET n == Len(seg)
        s == List([c \in 1..NCol(seg) |-> SumRange(Column(seg, c), 1, n)])
        q == List([c \in 1..NCol(seg) |-> SumRange(Squares(Column(seg, c)), 1, n)])
        den2 == List([c \in 1..NCol(seg) |-> n * q[c] - s[c] * s[c]])
    IN  List([t \in 1..n |-> List([c \in 1..NCol(seg) |->
            [num |-> n * seg[t][c] - s[c], den2 |-> den2[c]]])])

-----------------------------------------------------------------------------
(* all_data_LSTM.  T1 holds the rows of the study period that were         *)
(* assigned scaled values before the call returned or raised; start is the  *)
(* first row of the study period in the caller's table.  The returned X     *)
(* tensors have a trailing axis of length 1.  The call raises when the      *)
(* period index is past the last period, when a part to scale has no row,   *)
(* and when get_train_set raises.                                           *)

AddChannel(T) ==
    List([j \in 1..Len(T) |-> LET row == T[j] IN List([k \in 1..Len(row) |-> <<row[k]>>])])

all_data_LSTM(df_ret, df_bin, period, len_train) ==
    LET periods == split_Tperiod(df_ret, df_bin, LenPeriod, LenTest)
        start == period * LenTest
    IN  IF period >= Len(periods.ret) THEN [ok |-> FALSE, T1 |-> <<>>, start |-> start]
        ELSE
        LET T1_input == periods.ret[period + 1]
            T1_target == periods.bin[period + 1]
            n == Len(T1_input)
        IN  IF len_train = 0 THEN [ok |-> FALSE, T1 |-> <<>>, start |-> start]
            ELSE
            LET X_input_train == fit_transform(Slice(T1_input, 0, len_train))
                y_input_train == Slice(T1_target, 0, len_train)
            IN  IF len_train >= n THEN [ok |-> FALSE, T1 |-> X_input_train, start |-> start]
                ELSE
                LET X_input_test == fit_transform(Slice(T1_input, len_train, n))
                    y_input_test == Slice(T1_target, len_train, n)
                    T1 == X_input_train \o X_input_test
                    train == get_train_set(X_input_train, y_input_train)
                    test == get_train_set(X_input_test, y_input_test)
                IN  IF ~train.ok \/ ~test.ok THEN [ok |-> FALSE, T1 |-> T1, start |-> start]
                    ELSE [ok |-> TRUE,
                          X_train |-> AddChannel(train.X), y_train |-> train.y,
                          X_test |-> AddChannel(test.X), y_test |-> test.y,
                          T1 |-> T1, start |-> start]

-----------------------------------------------------------------------------
(* all_multidata_LSTM: all_data_LSTM with its default len_train on each of  *)
(* the first four tables of the list, in turn, with the same binary table   *)
(* and period; the four X tensors stacked on a new last axis and reshaped   *)
(* to (rows, X_train1.shape[1], 4); y_train and y_test are those of the     *)
(* fourth call.  written[k] holds the rows of table k that were assigned    *)
(* scaled values before the call returned or raised.  The call raises when  *)
(* the list has fewer than four tables, when a call of all_data_LSTM        *)
(* raises, and when np.stack or reshape is given tensors that do not fit.   *)

NothingWritten == [T1 |-> <<>>, start |-> 0]

\* the shape of a tensor (rows, steps, 1) with at least one row
Shape(T) == <<Len(T), Len(T[1])>>

Stack4(A, B, C, D) ==
    List([j \in 1..Len(A) |->
        LET a == A[j]  b == B[j]  c == C[j]  d == D[j]
        IN  List([k \in 1..Len(a) |-> <<a[k][1], b[k][1], c[k][1], d[k][1]>>])])

\* r holds what the four calls of all_data_LSTM give, n is the length of the
\* caller's list
Stacked(r, n) ==
    LET failed == {k \in 1..4 : ~r[k].ok}
        last == IF failed = {} THEN 4 ELSE CHOOSE k \in failed : \A j \in failed : k <= j
        written == List([k \in 1..n |->
                      IF k <= last THEN [T1 |-> r[k].T1, start |-> r[k].start]
                      ELSE NothingWritten])
    IN  IF failed # {} THEN [ok |-> FALSE, written |-> written]
        ELSE IF \/ \E k \in 2..4 : Shape(r[k].X_train) # Shape(r[1].X_train)
                \/ \E k \in 2..4 : Shape(r[k].X_test) # Shape(r[1].X_test)
                \/ Len(r[1].X_test[1]) # Len(r[1].X_train[1])
        THEN [ok |-> FALSE, written |-> written]
        ELSE [ok |-> TRUE,
              X_train |-> Stack4(r[1].X_train, r[2].X_train, r[3].X_train, r[4].X_train),
              y_train |-> r[4].y_train,
              X_test |-> Stack4(r[1].X_test, r[2].X_test, r[3].X_test, r[4].X_test),
              y_test |-> r[4].y_test,
              written |-> written]

all_multidata_LSTM(df_multidim_list_, df_bin, period) ==
    IF Len(df_multidim_list_) < 4
    THEN [ok |-> FALSE,
          written |-> List([k \in 1..Len(df_multidim_list_) |-> NothingWritten])]
    ELSE CHOOSE out \in
            {Stacked(r, Len(df_multidim_list_)) :
                r \in {List([k \in 1..4 |->
                    all_data_LSTM(df_multidim_list_[k], df_bin, period, LenTrainDefault)])}} :
            TRUE

-----------------------------------------------------------------------------
(* all_data_DNN: all_data_LSTM with its default len_train, then the feature *)
(* indices m taken from the time axis and a reshape to NFeatures columns,   *)
(* which raises when m has another length.                                  *)

FeatureIndex_tail_from_220(n_time) ==
    PyRange(0, n_time, Stride) \o PyRange(DenseTailStart - 1, n_time - 1, 1)

FeatureIndex(n_time) ==
    PyRange(0, n_time, Stride) \o PyRange(DenseTailStart, n_time, 1)

\* X[:, m, :] reshaped to (rows, len(m))
Subsample(T, m) ==
    List([j \in 1..Len(T) |-> LET row == T[j] IN List([k \in 1..Len(m) |-> At(row, m[k])[1]])])

all_data_DNN(df_ret, df_bin, period, len_train) ==
    LET lstm == all_data_LSTM(df_ret, df_bin, period, LenTrainDefault)
    IN  IF ~lstm.ok THEN lstm
        ELSE
        LET m == FeatureIndex(Len(lstm.X_train[1]))
        IN  IF Len(m) # NFeatures THEN [ok |-> FALSE, T1 |-> lstm.T1, start |-> lstm.start]
            ELSE [ok |-> TRUE,
                  X_train |-> Subsample(lstm.X_train, m), y_train |-> lstm.y_train,
                  X_test |-> Subsample(lstm.X_test, m), y_test |-> lstm.y_test,
                  T1 |-> lstm.T1, start |-> lstm.start]

-----------------------------------------------------------------------------
(* Input tables.  Table number seed has, at row t (from 0) and company c    *)
(* (from 1), the return RetCell and the label BinCell.                      *)

RetCell(seed, t, c) == (((seed + 1) * t + 2 * c) % 7) - 3
BinCell(seed, t, c) == ((t \div c) + seed) % 2

ReturnsTable(seed, L) ==
    List([t \in 1..L |-> List([c \in 1..NCompanies |-> RetCell(seed, t - 1, c)])])
BinaryTable(seed, L) ==
    List([t \in 1..L |-> List([c \in 1..NCompanies |-> BinCell(seed, t - 1, c)])])

\* rows of the long tables: MaxPeriod + 1 study periods and seed + 1 rows more
LongLen(seed) == LenPeriod + MaxPeriod * LenTest + seed + 1

LenTrainChoices == {LenTrainDefault, 2 * LenTest, NSteps, LenPeriod - NSteps}

None == <<>>

NoResult ==
    /\ periods_ret = None /\ periods_bin = None
    /\ X = None /\ y = None
    /\ X_train = None /\ y_train = None /\ X_test = None /\ y_test = None

InitSplit ==
    \E seed \in 0..MaxSeed, L \in 0..MaxLen,
       lp \in 0..MaxLenPeriod, lt \in 1..MaxLenTest :
        /\ fn = "split_Tperiod"
        /\ df_multidim_list = None
        /\ df_returns = ReturnsTable(seed, L)
        /\ df_binary = BinaryTable(seed, L)
        /\ args = [len_period |-> lp, len_test |-> lt]

InitSequences ==
    \E seed \in 0..MaxSeed, L \in 0..MaxLen, c \in 1..NCompanies, n \in 1..MaxSteps :
        /\ fn = "get_sequences"
        /\ df_multidim_list = None
        /\ df_returns = Column(ReturnsTable(seed, L), c)
        /\ df_binary = Column(BinaryTable(seed, L), c)
        /\ args = [n_steps |-> n]

InitTensors ==
    \E seed \in 0..MaxSeed, p \in 0..(MaxPeriod + 1), lt \in LenTrainChoices,
       f \in {"all_data_LSTM", "all_data_DNN"} :
        /\ fn = f
        /\ df_multidim_list = None
        /\ df_returns = ReturnsTable(seed, LongLen(seed))
        /\ df_binary = BinaryTable(seed, LongLen(seed))
        /\ args = [period |-> p, len_train |-> lt]

\* get_train_set on tables of NSteps rows and a few more
InitTrainSet ==
    \E seed \in 0..MaxSeed, k \in 0..MaxSteps :
        /\ fn = "get_train_set"
        /\ df_multidim_list = None
        /\ df_returns = ReturnsTable(seed, NSteps + k)
        /\ df_binary = BinaryTable(seed, NSteps + k)
        /\ args = [n_steps |-> NSteps]

\* a list of four tables numbered seed, seed + 1, ..., or of the first three
InitMultidata ==
    \E seed \in 0..MaxSeed, p \in 0..(MaxPeriod + 1), n \in {3, 4} :
        /\ fn = "all_multidata_LSTM"
        /\ df_returns = None
        /\ df_binary = BinaryTable(seed, LongLen(seed))
        /\ df_multidim_list =
               List([k \in 1..n |-> ReturnsTable(seed + k - 1, LongLen(seed))])
        /\ args = [period |-> p]

NoData ==
    /\ dataframe = None /\ frames = None
    /\ dataframe_ritorni = 0 /\ dataframe_binary = 0
    /\ df_returns_pca = 0 /\ df_binary_pca = 0 /\ files = None

Init ==
    /\ pc = "call"
    /\ NoResult
    /\ NoData
    /\ InitSplit \/ InitSequences \/ InitTrainSet \/ InitTensors \/ InitMultidata

-----------------------------------------------------------------------------
(* The calls.                                                               *)

CallSplitTperiod ==
    /\ pc = "call" /\ fn = "split_Tperiod"
    /\ LET r == split_Tperiod(df_returns, df_binary, args.len_period, args.len_test)
       IN  /\ periods_ret' = r.ret
           /\ periods_bin' = r.bin
    /\ pc' = "returned"
    /\ UNCHANGED <<fn, df_returns, df_binary, df_multidim_list, args,
                   X, y, X_train, y_train, X_test, y_test>>
    /\ UNCHANGED dataVars

CallGetSequences ==
    /\ pc = "call" /\ fn = "get_sequences"
    /\ LET r == get_sequences(df_returns, df_binary, args.n_steps)
       IN  /\ X' = r.X
           /\ y' = r.y
    /\ pc' = "returned"
    /\ UNCHANGED <<fn, df_returns, df_binary, df_multidim_list, args,
                   periods_ret, periods_bin, X_train, y_train, X_test, y_test>>
    /\ UNCHANGED dataVars

CallGetTrainSet ==
    /\ pc = "call" /\ fn = "get_train_set"
    /\ LET r == get_train_set(df_returns, df_binary)
       IN  IF r.ok
           THEN /\ X' = r.X /\ y' = r.y
                /\ pc' = "returned"
           ELSE /\ pc' = "raised"
                /\ UNCHANGED <<X, y>>
    /\ UNCHANGED <<fn, df_returns, df_binary, df_multidim_list, args,
                   periods_ret, periods_bin, X_train, y_train, X_test, y_test>>
    /\ UNCHANGED dataVars

\* The study period is a slice of the caller's table and the scaled rows are
\* assigned into the slice: whether the caller's table sees them depends on
\* whether pandas made the slice a view or a copy.
WriteBack(df, r) ==
    List([t \in 1..Len(df) |->
        IF t > r.start /\ t <= r.start + Len(r.T1) THEN r.T1[t - r.start] ELSE df[t]])

Tensors(r) ==
    /\ IF r.ok
       THEN /\ pc' = "returned"
            /\ X_train' = r.X_train /\ y_train' = r.y_train
            /\ X_test' = r.X_test /\ y_test' = r.y_test
       ELSE /\ pc' = "raised"
            /\ UNCHANGED <<X_train, y_train, X_test, y_test>>
    /\ \/ df_returns' = df_returns
       \/ df_returns' = WriteBack(df_returns, r)

CallAllDataLSTM ==
    /\ pc = "call" /\ fn = "all_data_LSTM"
    /\ \E r \in {all_data_LSTM(df_returns, df_binary, args.period, args.len_train)} :
         Tensors(r)
    /\ UNCHANGED <<fn, df_binary, df_multidim_list, args, periods_ret, periods_bin, X, y>>
    /\ UNCHANGED dataVars

CallAllDataDNN ==
    /\ pc = "call" /\ fn = "all_data_DNN"
    /\ \E r \in {all_data_DNN(df_returns, df_binary, args.period, args.len_train)} :
         Tensors(r)
    /\ UNCHANGED <<fn, df_binary, df_multidim_list, args, periods_ret, periods_bin, X, y>>
    /\ UNCHANGED dataVars

\* the four study periods are slices of the tables of the caller's list: the
\* tables see the scaled rows when pandas made the slices views
CallAllMultidataLSTM ==
    /\ pc = "call" /\ fn = "all_multidata_LSTM"
    /\ \E r \in {all_multidata_LSTM(df_multidim_list, df_binary, args.period)} :
           /\ IF r.ok
              THEN /\ pc' = "returned"
                   /\ X_train' = r.X_train /\ y_train' = r.y_train
                   /\ X_test' = r.X_test /\ y_test' = r.y_test
              ELSE /\ pc' = "raised"
                   /\ UNCHANGED <<X_train, y_train, X_test, y_test>>
           /\ \/ df_multidim_list' = df_multidim_list
              \/ df_multidim_list' =
                    List([k \in 1..Len(df_multidim_list) |->
                            WriteBack(df_multidim_list[k], r.written[k])])
    /\ UNCHANGED <<fn, df_returns, df_binary, args, periods_ret, periods_bin, X, y>>
    /\ UNCHANGED dataVars

Next ==
    \/ CallSplitTperiod
    \/ CallGetSequences
    \/ CallGetTrainSet
    \/ CallAllDataLSTM
    \/ CallAllMultidataLSTM
    \/ CallAllDataDNN

Spec == Init /\ [][Next]_vars

-----------------------------------------------------------------------------
(* data_returns.py.  Prices and returns are floats: a number is kept as the *)
(* fraction n/d in lowest terms with d > 0, and NaN (a missing price) as    *)
(* n = 0, d = 0.  (The prices of the model are small integers: a quotient  *)
(* of two of them, and the mean of two such quotients, compare as floats    *)
(* the way the fractions do.)  A table has its column names (company        *)
(* identifiers) and its rows, each row aligned with the names.              *)

Abs(a) == IF a < 0 THEN -a ELSE a

RECURSIVE GCD(_, _)
GCD(a, b) == IF b = 0 THEN a ELSE GCD(b, a % b)

Frac(n, d) == LET g == GCD(Abs(n), Abs(d)) IN [n |-> n \div g, d |-> d \div g]
Num(k) == [n |-> k, d |-> 1]
NaN == [n |-> 0, d |-> 0]
IsNaN(a) == a.d = 0

\* a / b and a - 1 on floats (NaN propagates; prices are never 0)
Div(a, b) == IF IsNaN(a) \/ IsNaN(b) THEN NaN
             ELSE IF b.n < 0 THEN Frac(-(a.n * b.d), -(a.d * b.n))
             ELSE Frac(a.n * b.d, a.d * b.n)
MinusOne(a) == IF IsNaN(a) THEN NaN ELSE Frac(a.n - a.d, a.d)
HalfSum(a, b) == IF IsNaN(a) \/ IsNaN(b) THEN NaN
                 ELSE Frac(a.n * b.d + b.n * a.d, 2 * a.d * b.d)
\* a < b and a <= b on floats: every comparison with NaN is False
Lt(a, b) == ~IsNaN(a) /\ ~IsNaN(b) /\ a.n * b.d < b.n * a.d
Leq(a, b) == ~IsNaN(a) /\ ~IsNaN(b) /\ a.n * b.d <= b.n * a.d

\* dataframe[col] as a series, col a column name
Series(df, col) ==
    LET j == CHOOSE j \in 1..Len(df.columns) : df.columns[j] = col
    IN  List([t \in 1..Len(df.rows) |-> df.rows[t][j]])

\* numpy a / b on two 1-d arrays: equal lengths, or one of length 1 is
\* broadcast; any other pair of lengths raises
Divide(a, b) ==
    IF Len(a) = Len(b) THEN [ok |-> TRUE, v |-> List([t \in 1..Len(a) |-> Div(a[t], b[t])])]
    ELSE IF Len(a) = 1 THEN [ok |-> TRUE, v |-> List([t \in 1..Len(b) |-> Div(a[1], b[t])])]
    ELSE IF Len(b) = 1 THEN [ok |-> TRUE, v |-> List([t \in 1..Len(a) |-> Div(a[t], b[1])])]
    ELSE Raised

\* np.array(today)[:-m] for m >= 0: -0 is 0, so m = 0 leaves nothing
DropLast(today, m) == IF m = 0 THEN <<>> ELSE Slice(today, 0, Max(Len(today) - m, 0))

\* the loop of get_returns over the columns cols, and dropna(axis = 1)
ReturnsOf(dataframe_, cols, m, no_missing) ==
    LET col(c) == Divide(Slice(Series(dataframe_, c), m, Len(dataframe_.rows)),
                         DropLast(Series(dataframe_, c), m))
        n == IF Len(cols) = 0 THEN 0 ELSE Len(col(cols[1]).v)
        HasNoNaN(c) == \A t \in 1..n : ~IsNaN(col(c).v[t])
        kept == IF no_missing THEN SelectSeq(cols, HasNoNaN) ELSE cols
    IN  IF \E k \in 1..Len(cols) : ~col(cols[k]).ok THEN Raised
        ELSE [ok |-> TRUE,
              df |-> [columns |-> kept,
                      rows |-> List([t \in 1..n |->
                                 List([j \in 1..Len(kept) |-> MinusOne(col(kept[j]).v[t])])])]]

\* The arguments export_returns_csv and m are Python values, an int or a
\* bool (True is 1 and False is 0 in a comparison and as a truth value).
PyInt(k) == [type |-> "int", value |-> k]
PyBool(b) == [type |-> "bool", value |-> IF b THEN 1 ELSE 0]
Truthy(v) == v.value # 0

\* today[m:] on a pandas Series takes an int as slice bound: a bool raises
\* (TypeError), in the first pass of the loop
get_returns(dataframe_, export_returns_csv, m, no_missing) ==
    IF m.value < 0 THEN [outcome |-> "exit"]
    ELSE LET cols == Slice(dataframe_.columns, 1, Len(dataframe_.columns))
             r == ReturnsOf(dataframe_, cols, m.value, no_missing)
         IN  IF Len(cols) > 0 /\ m.type = "bool" THEN [outcome |-> "raised"]
             ELSE IF ~r.ok THEN [outcome |-> "raised"]
             ELSE [outcome |-> "returned", df |-> r.df,
                   written |-> IF Truthy(export_returns_csv)
                               THEN <<[name |-> "ReturnsData.csv", table |-> r.df]>>
                               ELSE <<>>]

-----------------------------------------------------------------------------
(* binary_targets.  statistics.median sorts the row and takes the middle    *)
(* value, or the mean of the two middle values; it raises on an empty row.  *)
(* sorted() compares with < only; on a short list (a row has fewer than 64  *)
(* values) it takes the run the list starts with and inserts each later     *)
(* value at the place a binary search finds.  On values without NaN the     *)
(* result is the values in ascending order.  With NaN, < is no order and    *)
(* the result is what the comparisons made give: it depends on how the      *)
(* interpreter finds the first run.  CPython before 3.13 takes a            *)
(* non-descending run, or a strictly descending one and reverses it;        *)
(* CPython 3.13 also takes a descending run with equal neighbours,          *)
(* reversing each group of equals first, and extends the reversed run.      *)
(* The interpreter of a run is one of Pythons.                              *)

Pythons == {"cpython_3_11", "cpython_3_13"}

Reverse(s) == List([i \in 1..Len(s) |-> s[Len(s) + 1 - i]])

\* CPython before 3.13: the length of the run the list a starts with, n of
\* its values being known
RECURSIVE CountRun(_, _, _)
CountRun(a, n, descending) ==
    IF n >= Len(a) THEN n
    ELSE IF Lt(a[n + 1], a[n]) = descending THEN CountRun(a, n + 1, descending)
    ELSE n

\* CPython 3.13: the end of the run of a[0 .. n) continued while the next
\* value is not smaller
RECURSIVE AscendingEnd(_, _)
AscendingEnd(a, n) ==
    IF n >= Len(a) THEN n
    ELSE IF Lt(a[n + 1], a[n]) THEN n
    ELSE AscendingEnd(a, n + 1)

\* CPython 3.13, REVERSE_LAST_NEQ: the last neq + 1 of the first n values are
\* equal and are reversed in place
ReverseLastNeq(a, n, neq) ==
    IF neq = 0 THEN a
    ELSE Slice(a, 0, n - neq - 1) \o Reverse(Slice(a, n - neq - 1, n)) \o Slice(a, n, Len(a))

\* CPython 3.13: the descending run of a[0 .. n), its last neq + 1 values equal
RECURSIVE DescendingRun(_, _, _)
DescendingRun(a, n, neq) ==
    IF n >= Len(a) THEN [a |-> a, n |-> n, neq |-> neq]
    ELSE IF Lt(a[n + 1], a[n]) THEN DescendingRun(ReverseLastNeq(a, n, neq), n + 1, 0)
    ELSE IF Lt(a[n], a[n + 1]) THEN [a |-> a, n |-> n, neq |-> neq]
    ELSE DescendingRun(a, n + 1, neq + 1)

\* CPython 3.13 count_run: the list with its first run made ascending, and the
\* length of that run
\* d is a list with the descending run DescendingRun found: the run made
\* ascending and extended
MadeAscending(d) ==
    LET b == ReverseLastNeq(d.a, d.n, d.neq)
        c == Reverse(Slice(b, 0, d.n)) \o Slice(b, d.n, Len(b))
    IN  [a |-> c, n |-> AscendingEnd(c, d.n)]

CountRun313(data) ==
    LET n == AscendingEnd(data, 1)
    IN  IF n = Len(data) \/ (n > 1 /\ Lt(data[1], data[n])) THEN [a |-> data, n |-> n]
        ELSE CHOOSE r \in {MadeAscending(d) : d \in {DescendingRun(data, n, n - 1)}} : TRUE

\* where pivot goes among a[l .. r), indices from 0
RECURSIVE InsertionPoint(_, _, _, _)
InsertionPoint(a, pivot, l, r) ==
    IF l >= r THEN l
    ELSE LET p == l + ((r - l) \div 2)
         IN  IF Lt(pivot, At(a, p)) THEN InsertionPoint(a, pivot, l, p)
             ELSE InsertionPoint(a, pivot, p + 1, r)

\* a[0 .. start) is sorted: insert a[start], a[start + 1], ...
RECURSIVE BinarySort(_, _)
BinarySort(a, start) ==
    IF start >= Len(a) THEN a
    ELSE LET pivot == At(a, start)
             l == InsertionPoint(a, pivot, 0, start)
         IN  BinarySort(Slice(a, 0, l) \o <<pivot>> \o Slice(a, l, start)
                            \o Slice(a, start + 1, Len(a)),
                        start + 1)

\* CPython before 3.13 count_run, and the reversal of a descending run: the
\* list with its first run made ascending, and the length of that run
CountRun311(data) ==
    LET descending == Lt(data[2], data[1])
        n == CountRun(data, 2, descending)
        run == Slice(data, 0, n)
    IN  [a |-> (IF descending THEN Reverse(run) ELSE run) \o Slice(data, n, Len(data)),
         n |-> n]

Sorted(data, python) ==
    IF Len(data) < 2 THEN data
    ELSE CHOOSE s \in {BinarySort(r.a, r.n) :
                         r \in {IF python = "cpython_3_13" THEN CountRun313(data)
                                 ELSE CountRun311(data)}} : TRUE

\* the middle of a sorted list: data[n // 2], or the mean of the two middle cells
Middle(srt) ==
    LET n == Len(srt)
        i == n \div 2
    IN  IF n % 2 = 1 THEN At(srt, i) ELSE HalfSum(At(srt, i - 1), At(srt, i))

median(data, python) == CHOOSE v \in {Middle(srt) : srt \in {Sorted(data, python)}} : TRUE

Label_ties_to_one(x, compare_value) ==
    IF Leq(x, compare_value) /\ x # compare_value THEN Num(0) ELSE Num(1)

\* lambda x: 0 if x <= compare_value else 1
Label(x, compare_value) == IF Leq(x, compare_value) THEN Num(0) ELSE Num(1)

\* the loop body at time_idx, on the table the loop is writing into
RECURSIVE LabelRows(_, _, _)
LabelRows(df, time_idx, python) ==
    IF time_idx >= Len(df.rows) THEN [ok |-> TRUE, df |-> df]
    ELSE LET compare_list == At(df.rows, time_idx)
         IN  IF Len(compare_list) = 0 THEN Raised
             ELSE LET compare_value == median(compare_list, python)
                      row == List([j \in 1..Len(compare_list) |->
                                     Label(compare_list[j], compare_value)])
                  IN  LabelRows([df EXCEPT !.rows[time_idx + 1] = row], time_idx + 1, python)

\* an object with rows and columns; a Python list of tables is none
IsDataFrame(obj) == "rows" \in DOMAIN obj

\* df = dataframe binds a second name to the caller's table: the loop writes
\* into frames[ref] and the same identity is returned; the file written is
\* name with ".csv" appended.  Reading dataframe.shape of an object that is
\* no table raises.  python is the interpreter the call runs on.
binary_targets(frames_, ref, export_binary_csv, name, python) ==
    IF ~IsDataFrame(frames_[ref]) THEN [outcome |-> "raised"]
    ELSE
    CHOOSE out \in
      {IF ~r.ok THEN [outcome |-> "raised"]
       ELSE [outcome |-> "returned", frames |-> [frames_ EXCEPT ![ref] = r.df],
             df |-> ref,
             written |-> IF export_binary_csv
                         THEN <<[name |-> name \o ".csv", table |-> r.df]>> ELSE <<>>] :
       r \in {LabelRows(frames_[ref], 0, python)}} : TRUE

-----------------------------------------------------------------------------
(* wavelet_dataframe is imported from portfolioML.data.preprocessing, which *)
(* is not part of the sources at hand.  The script binds its result to      *)
(* df_returns_pca and hands it to binary_targets as a table; the interface  *)
(* description gives it a return-table file and a wavelet family and has it *)
(* return a list of exactly four tables of one shape.  Nothing else is      *)
(* known of it: a call raises, returns some table, or returns a list of     *)
(* four tables.                                                             *)

WaveletRows == <<<<Num(1), Num(2), Num(3)>>, <<Num(3), Num(2), Num(1)>>,
                <<Num(2), Num(2), Num(1)>>>>

\* the tables a call may return: two rows of three companies
WaveletTables ==
    {[columns |-> <<1, 2, 3>>,
      rows |-> <<WaveletRows[i], WaveletRows[(i % Len(WaveletRows)) + 1]>>] :
        i \in 1..Len(WaveletRows)}

wavelet_dataframe(file, wavelet) ==
    {[outcome |-> "raised"]}
        \cup {[outcome |-> "returned", value |-> T] : T \in WaveletTables}
        \cup {[outcome |-> "returned", value |-> [list |-> <<T, T, T, T>>]] :
                T \in {[columns |-> <<1, 2, 3>>, rows |-> <<WaveletRows[1], WaveletRows[2]>>]}}

-----------------------------------------------------------------------------
(* data_returns.py in use.  With fn = "get_returns" a caller calls          *)
(* get_returns on a price table of company columns, with an int m and its   *)
(* default no_missing, and then binary_targets on the table returned.  With *)
(* fn = "__main__" the script runs: lines 126-127 hand the command-line     *)
(* values m_period_return (an int) and export_returns_csv (a bool) to the   *)
(* parameters export_returns_csv and m, in that order; then binary_targets, *)
(* wavelet_dataframe and binary_targets again.  args.python is the          *)
(* interpreter of the run.                                                  *)

\* price of a company of kind k at day t (from 0)
RECURSIVE Pow2(_)
Pow2(t) == IF t = 0 THEN 1 ELSE 2 * Pow2(t - 1)

Price(k, t) ==
    IF k = 0 THEN Num(1)
    ELSE IF k = 1 THEN Num(Pow2(t))
    ELSE IF k = 2 THEN Num(2 - (t % 2))
    ELSE IF k = 3 THEN (IF t = 1 THEN NaN ELSE Num(t + 1))
    ELSE Num(k + t)

PriceTable(kinds, L) ==
    [columns |-> List([c \in 1..Len(kinds) |-> c]),
     rows |-> List([t \in 1..L |-> List([c \in 1..Len(kinds) |-> Price(kinds[c], t - 1)])])]

InitData ==
    /\ pc = "call" /\ fn \in {"get_returns", "__main__"}
    /\ NoResult /\ df_returns = None /\ df_binary = None /\ df_multidim_list = None
    /\ \E C \in 1..MaxCols, L \in 1..MaxRows :
         \E kinds \in [1..C -> 0..MaxKind] : dataframe = PriceTable(kinds, L)
    /\ \E m \in (-1)..MaxM, e1 \in BOOLEAN, e2 \in BOOLEAN, python \in Pythons :
         args = IF fn = "get_returns"
                THEN [m |-> m, export_returns_csv |-> e1, export_binary_csv |-> e2,
                      python |-> python]
                ELSE [m_period_return |-> m, export_returns_csv |-> e1,
                      export_binary_csv |-> e2, python |-> python]
    /\ frames = <<>> /\ dataframe_ritorni = 0 /\ dataframe_binary = 0
    /\ df_returns_pca = 0 /\ df_binary_pca = 0 /\ files = <<>>

\* what a call of get_returns leaves
Returns(r) ==
    /\ IF r.outcome = "returned"
       THEN /\ frames' = Append(frames, r.df)
            /\ dataframe_ritorni' = Len(frames) + 1
            /\ files' = files \o r.written
            /\ pc' = "got_returns"
       ELSE /\ pc' = r.outcome
            /\ UNCHANGED <<frames, dataframe_ritorni, files>>
    /\ UNCHANGED <<fn, args, splitVars, dataframe, dataframe_binary,
                   df_returns_pca, df_binary_pca>>

\* what a call of binary_targets on the table of get_returns leaves
Binary(r) ==
    /\ IF r.outcome = "returned"
       THEN /\ frames' = r.frames
            /\ dataframe_binary' = r.df
            /\ files' = files \o r.written
            /\ pc' = "done"
       ELSE /\ pc' = r.outcome
            /\ UNCHANGED <<frames, dataframe_binary, files>>
    /\ UNCHANGED <<fn, args, splitVars, dataframe, dataframe_ritorni,
                   df_returns_pca, df_binary_pca>>

GetReturns ==
    /\ pc = "call" /\ fn = "get_returns"
    /\ \E r \in {get_returns(dataframe, PyBool(args.export_returns_csv),
                               PyInt(args.m), TRUE)} : Returns(r)

BinaryTargets ==
    /\ pc = "got_returns" /\ fn = "get_returns"
    /\ \E r \in {binary_targets(frames, dataframe_ritorni, args.export_binary_csv,
                                  "ReturnsBinary", args.python)} : Binary(r)

MainGetReturns ==
    /\ pc = "call" /\ fn = "__main__"
    /\ \E r \in {get_returns(dataframe, PyInt(args.m_period_return),
                               PyBool(args.export_returns_csv), TRUE)} : Returns(r)

MainBinaryTargets ==
    /\ pc = "got_returns" /\ fn = "__main__"
    /\ \E r \in {binary_targets(frames, dataframe_ritorni, args.export_binary_csv,
                                  "ReturnsBinary", args.python)} : Binary(r)

WaveletDataframe ==
    /\ pc = "done" /\ fn = "__main__"
    /\ \E r \in wavelet_dataframe("ReturnsData.csv", "haar") :
         IF r.outcome = "returned"
         THEN /\ frames' = Append(frames, r.value)
              /\ df_returns_pca' = Len(frames) + 1
              /\ pc' = "got_wavelet"
         ELSE /\ pc' = r.outcome
              /\ UNCHANGED <<frames, df_returns_pca>>
    /\ UNCHANGED <<fn, args, splitVars, dataframe, dataframe_ritorni, dataframe_binary,
                   df_binary_pca, files>>

BinaryTargetsPCA ==
    /\ pc = "got_wavelet" /\ fn = "__main__"
    /\ \E r \in {binary_targets(frames, df_returns_pca, args.export_binary_csv,
                                  "ReturnsBinaryPCA", args.python)} :
         IF r.outcome = "returned"
         THEN /\ frames' = r.frames
              /\ df_binary_pca' = r.df
              /\ files' = files \o r.written
              /\ pc' = "finished"
         ELSE /\ pc' = r.outcome
              /\ UNCHANGED <<frames, df_binary_pca, files>>
    /\ UNCHANGED <<fn, args, splitVars, dataframe, dataframe_ritorni, dataframe_binary,
                   df_returns_pca>>

NextData ==
    \/ GetReturns
    \/ BinaryTargets
    \/ MainGetReturns
    \/ MainBinaryTargets
    \/ WaveletDataframe
    \/ BinaryTargetsPCA

SpecData == InitData /\ [][NextData]_vars

-----------------------------------------------------------------------------
(* Properties of split.py, under Spec.                                      *)

IsCall(f) == pc = "call" /\ fn = f
Returned(f) == pc = "returned" /\ fn = f

\* C1: get_sequences on two series of equal length L returns X and y of
\* exactly max(L - n_steps, 0) entries where X[i] is returns[i .. i+n_steps-1]
\* and y[i] is targets[i + n_steps]; with L <= n_steps both are empty and the
\* call does not raise.
C1_Sequences ==
    fn = "get_sequences" =>
        /\ pc \in {"call", "returned"}
        /\ pc = "returned" =>
            LET L == Len(df_returns)
                n == args.n_steps
                K == IF L - n > 0 THEN L - n ELSE 0
            IN  /\ Len(X) = K /\ Len(y) = K
                /\ \A i \in 0..(K - 1) :
                    /\ Len(X[i + 1]) = n
                    /\ \A j \in 0..(n - 1) : X[i + 1][j + 1] = df_returns[i + j + 1]
                    /\ y[i + 1] = df_binary[i + n + 1]
                /\ L <= n => X = <<>> /\ y = <<>>

C1_Witness ==
    /\ Returned("get_sequences")
    /\ Len(X) >= 2 /\ args.n_steps >= 2

\* the rows [a, a + n) of a table, row by row
RowsAre(slice, table, a, n) ==
    /\ Len(slice) = n
    /\ \A r \in 0..(n - 1) : slice[r + 1] = table[a + r + 1]

\* C2: split_Tperiod returns two lists of the same length whose k-th elements
\* are the rows [k*len_test, k*len_test + len_period) of their table, for
\* exactly the k >= 0 with k*len_test <= L - len_period; both are empty when
\* L < len_period.
C2_Periods ==
    Returned("split_Tperiod") =>
        LET L == Len(df_returns)
            lp == args.len_period
            lt == args.len_test
            K == IF L < lp THEN 0 ELSE ((L - lp) \div lt) + 1
        IN  /\ Len(periods_ret) = K /\ Len(periods_bin) = K
            /\ \A k \in 0..(K - 1) :
                /\ RowsAre(periods_ret[k + 1], df_returns, k * lt, lp)
                /\ RowsAre(periods_bin[k + 1], df_binary, k * lt, lp)
            /\ L < lp => periods_ret = <<>> /\ periods_bin = <<>>

C2_Witness ==
    /\ Returned("split_Tperiod")
    /\ Len(periods_ret) >= 3 /\ args.len_period >= 2 /\ args.len_test >= 2

\* some returned period is the rows [L - len_period, L) of the returns table
HasTrailingPeriod ==
    \E k \in 1..Len(periods_ret) :
        RowsAre(periods_ret[k], df_returns, Len(df_returns) - args.len_period,
                args.len_period)

\* C9 as stated: whenever len(table) >= len_period the returned periods include
\* one starting at row len(table) - len_period, so that the last row belongs
\* to a period.
C9_TrailingAlways ==
    (Returned("split_Tperiod") /\ Len(df_returns) >= args.len_period)
        => HasTrailingPeriod

\* C9 amended: for len_period >= 1 and len(table) >= len_period, a period
\* starting at row len(table) - len_period is returned exactly when
\* len(table) - len_period is a multiple of len_test; otherwise the last
\* period is the rows [g, g + len_period) with g the largest multiple of
\* len_test below len(table) - len_period, and the rows after it are in no
\* period.
C9_TrailingOnlyOnMultiple ==
    (Returned("split_Tperiod") /\ args.len_period >= 1
        /\ Len(df_returns) >= args.len_period) =>
        LET leave == Len(df_returns) - args.len_period
            g == (leave \div args.len_test) * args.len_test
        IN  /\ HasTrailingPeriod <=> (leave % args.len_test = 0)
            /\ Len(periods_ret) >= 1
            /\ RowsAre(periods_ret[Len(periods_ret)], df_returns, g, args.len_period)
            /\ Len(periods_ret) = (g \div args.len_test) + 1

C9_Witness ==
    /\ Returned("split_Tperiod")
    /\ args.len_period >= 1 /\ Len(df_returns) >= args.len_period
    /\ (Len(df_returns) - args.len_period) % args.len_test # 0
    /\ Len(periods_ret) >= 2
    /\ ~HasTrailingPeriod

-----------------------------------------------------------------------------
(* Properties of the tensors.  The caller's returns table may be written by *)
(* the call, so a property relates the table before the call to the tensors *)
(* after it.                                                                *)

\* the standardized value of x among the rows lo+1 .. hi of column c of table
ScaledIn(x, s1, s2, n) == [num |-> n * x - s1, den2 |-> n * s2 - s1 * s1]

\* (Xs, ys) stacks, company after company, the N windows of NSteps rows of
\* rows [lo, hi) of the tables, scaled among these rows, with the label that
\* follows each window
CompanyMajor(Xs, ys, ret, bin, lo, hi) ==
    LET C == Len(ret[1])
        n == hi - lo
        N == n - NSteps
        s1 == List([c \in 1..C |-> SumRange([t \in 1..n |-> ret[lo + t][c]], 1, n)])
        s2 == List([c \in 1..C |->
                 SumRange([t \in 1..n |-> ret[lo + t][c] * ret[lo + t][c]], 1, n)])
    IN  /\ Len(Xs) = C * N /\ Len(ys) = C * N
        /\ \A c \in 0..(C - 1) : \A i \in 0..(N - 1) :
            /\ Len(Xs[c * N + i + 1]) = NSteps
            /\ \A j \in 0..(NSteps - 1) :
                Xs[c * N + i + 1][j + 1] =
                    <<ScaledIn(ret[lo + i + j + 1][c + 1], s1[c + 1], s2[c + 1], n)>>
            /\ ys[c * N + i + 1] = bin[lo + i + NSteps + 1][c + 1]

\* C6: all_data_LSTM stacks the sequences company-major: X_train[c*N + i] is
\* the window of rows i..i+239 of company c in the standardized training
\* prefix (the first len_train rows of study period rows
\* [period*327, period*327 + 1308)), y_train[c*N + i] the unscaled label of
\* company c at row i + 240 of the prefix, N = len_train - 240; the same for
\* X_test, y_test over the remaining rows; no tensor of one part uses a row of
\* the other part.
C6_CompanyMajor ==
    [][(IsCall("all_data_LSTM") /\ pc' = "returned") =>
        LET start == args.period * LenTest
        IN  /\ CompanyMajor(X_train', y_train', df_returns, df_binary,
                            start, start + args.len_train)
            /\ CompanyMajor(X_test', y_test', df_returns, df_binary,
                            start + args.len_train, start + LenPeriod)]_vars

C6_Witness ==
    /\ Returned("all_data_LSTM")
    /\ args.period >= 1 /\ args.len_train # LenTrainDefault
    /\ Len(X_train) = NCompanies * (args.len_train - NSteps)
    /\ Len(X_test) = NCompanies * (LenPeriod - args.len_train - NSteps)
    /\ Len(X_test) >= 2 * NCompanies

\* C7 as stated: all_data_DNN splits the study period at the len_train it is
\* given: whenever all_data_LSTM returns for the same four arguments, y_train,
\* y_test and the row counts of X_train and X_test of all_data_DNN equal those
\* of all_data_LSTM.
C7_SameSplitAsLSTM ==
    [][IsCall("all_data_DNN") =>
        LET lstm == all_data_LSTM(df_returns, df_binary, args.period, args.len_train)
        IN  lstm.ok =>
              /\ pc' = "returned"
              /\ y_train' = lstm.y_train /\ y_test' = lstm.y_test
              /\ Len(X_train') = Len(lstm.X_train)
              /\ Len(X_test') = Len(lstm.X_test)]_vars

\* the k-th (from 0) time index kept by all_data_DNN: 0, 20, ..., 220, then
\* 221, ..., 239
KeptIndex(k) == IF k < 12 THEN 20 * k ELSE 209 + k

FeaturesOf(D, T) ==
    /\ Len(D) = Len(T)
    /\ \A j \in 1..Len(D) :
        /\ Len(D[j]) = 31
        /\ \A k \in 0..30 : D[j][k + 1] = T[j][KeptIndex(k) + 1][1]

\* C8: every row of the X_train and X_test of all_data_DNN has exactly 31
\* features, feature k of row j being the value at time index idx[k] of row j
\* of the all_data_LSTM tensor it was built from, idx = 0, 20, ..., 220, 221,
\* ..., 239; the row order and y are unchanged.
C8_Features ==
    [][IsCall("all_data_DNN") =>
        LET lstm == all_data_LSTM(df_returns, df_binary, args.period, LenTrainDefault)
        IN  lstm.ok =>
              /\ pc' = "returned"
              /\ FeaturesOf(X_train', lstm.X_train)
              /\ FeaturesOf(X_test', lstm.X_test)
              /\ y_train' = lstm.y_train /\ y_test' = lstm.y_test]_vars

C8_Witness ==
    /\ Returned("all_data_DNN")
    /\ Len(X_train) >= 2 * NCompanies /\ Len(X_test) >= 2 * NCompanies
    /\ Len(X_train[1]) = 31
    /\ \E j \in 1..Len(X_test) : X_test[j][12] # X_test[j][13]

-----------------------------------------------------------------------------
(* Properties of data_returns.py, under SpecData.                           *)

\* the k-th smallest (k from 1) of the values of a row
KthSmallest(row, k) ==
    LET v == CHOOSE v \in {row[i] : i \in 1..Len(row)} :
                 /\ Cardinality({i \in 1..Len(row) : Lt(row[i], v)}) < k
                 /\ Cardinality({i \in 1..Len(row) : Leq(row[i], v)}) >= k
    IN  v

\* x is at most the median of the row: the middle value of an odd number of
\* values, the mean of the two middle values of an even number
AtMostMedian(x, row) ==
    LET n == Len(row)
    IN  IF n % 2 = 1 THEN Leq(x, KthSmallest(row, (n + 1) \div 2))
        ELSE LET a == KthSmallest(row, n \div 2)
                 b == KthSmallest(row, (n \div 2) + 1)
             IN  \* x <= (a + b) / 2
                 2 * x.n * a.d * b.d <= (a.n * b.d + b.n * a.d) * x.d

\* B is the table of R's shape with 0 where the cell of R is at most the
\* median of its row of R, and 1 elsewhere
LabelsOf(B, R) ==
    /\ B.columns = R.columns
    /\ Len(B.rows) = Len(R.rows)
    /\ \A t \in 1..Len(R.rows) :
        /\ Len(B.rows[t]) = Len(R.rows[t])
        /\ \A c \in 1..Len(R.rows[t]) :
            /\ B.rows[t][c] \in {Num(0), Num(1)}
            /\ B.rows[t][c] = Num(0) <=> AtMostMedian(R.rows[t][c], R.rows[t])

\* C3: binary_targets(R) returns a table of the shape of R whose cells are 0
\* or 1, the cell of row t and company c being 0 exactly when R[t][c] is <=
\* the median of the original values of row t (a value equal to the median
\* gets 0); row t of the result depends on row t of R only.  (Both calls of
\* the script: on the returns, and on the table wavelet_dataframe returned.)
C3_MedianLabels ==
    [][/\ (pc = "got_returns" /\ pc' = "done") =>
            LabelsOf(frames'[dataframe_binary'], frames[dataframe_ritorni])
       /\ (pc = "got_wavelet" /\ pc' = "finished") =>
            LabelsOf(frames'[df_binary_pca'], frames[df_returns_pca])]_vars

C3_Witness ==
    /\ pc = "done" /\ fn = "get_returns"
    /\ LET B == frames[dataframe_binary]
       IN  /\ Len(B.columns) >= 3 /\ Len(B.rows) >= 2
           /\ B.rows[1] # B.rows[2]
           /\ \E c \in 1..Len(B.columns) : B.rows[1][c] = Num(1)
           /\ \E c, d \in 1..Len(B.columns) :
                c # d /\ B.rows[2][c] = Num(0) /\ B.rows[2][d] = Num(0)

\* the price of company c at day t (from 0), c a column name of the price table
PriceOf(c, t) == Series(dataframe, c)[t + 1]

HasMissingPrice(c) == \E t \in 1..Len(dataframe.rows) : IsNaN(PriceOf(c, t - 1))

\* C4 as stated: for a price table P of company columns and 1 <= m < len(P),
\* get_returns returns len(P) - m rows and, for each company c of P with no
\* missing price, a column c with P[c][t+m]/P[c][t] - 1 at every row t.
C4_EveryCompany ==
    (fn = "get_returns" /\ pc = "got_returns"
        /\ args.m >= 1 /\ args.m < Len(dataframe.rows)) =>
        LET df == frames[dataframe_ritorni]
            n == Len(dataframe.rows) - args.m
        IN  /\ Len(df.rows) = n
            /\ \A k \in 1..Len(dataframe.columns) :
                LET c == dataframe.columns[k]
                IN  ~HasMissingPrice(c) =>
                      /\ \E j \in 1..Len(df.columns) : df.columns[j] = c
                      /\ \A t \in 0..(n - 1) :
                           Series(df, c)[t + 1] =
                               MinusOne(Div(PriceOf(c, t + args.m), PriceOf(c, t)))

\* C5 as stated: get_returns with m <= 0 ends in the invalid-argument outcome
\* (the error is reported, the process exits) and computes no return table.
C5_NonPositiveExits ==
    (fn = "get_returns" /\ pc # "call" /\ args.m <= 0) =>
        /\ pc = "exit"
        /\ frames = <<>> /\ dataframe_ritorni = 0

\* C10 as stated: binary_targets leaves the table it was given unchanged and
\* returns a separate table, so that the returns table and the binary table
\* handed on are the real returns and their labels.
C10_InputUnchanged ==
    [][/\ (pc = "got_returns" /\ pc' = "done") =>
            /\ frames'[dataframe_ritorni'] = frames[dataframe_ritorni]
            /\ dataframe_binary' # dataframe_ritorni'
       /\ (pc = "got_wavelet" /\ pc' = "finished") =>
            /\ frames'[df_returns_pca'] = frames[df_returns_pca]
            /\ df_binary_pca' # df_returns_pca']_vars

====
